---- MODULE Spec2Model ----
(***************************************************************************)
(* Model of turno_backend/main.py: the Excel schedule loader               *)
(* (cargar_turnos_desde_excel_full), the shift resolver (get_tipo_dia and  *)
(* HORARIOS_POR_TURNO) and the three FastAPI routes with the process-wide  *)
(* cache turnos_completos.                                                 *)
(*                                                                         *)
(* Encoding of Python and pandas values:                                   *)
(*   - an input string is a sequence of one-character strings, so that     *)
(*     split, strip, int() and strptime are computed character by          *)
(*     character; output strings (dict keys, display ranges) are strings;  *)
(*   - a cell of the DataFrame is a record tagged by t:                    *)
(*       "nan" (empty cell), "ts" (Timestamp/datetime: y, m, d, h),        *)
(*       "str" (s: characters), "num" (n: integer value);                  *)
(*   - a DataFrame is [columns: set of names, rows: sequence of functions  *)
(*     from the columns to cells];                                         *)
(*   - a dict is a function whose DOMAIN is its key set.                   *)
(* Identifiers and strings are ASCII: the column AÑO is written "ANIO",    *)
(* and accented characters of the display strings are written unaccented.  *)
(***************************************************************************)
EXTENDS Integers, Sequences, FiniteSets, TLC

VARIABLES archivo, ahora, turnos_completos, respuesta, leyo, pc, resultado

vars == <<archivo, ahora, turnos_completos, respuesta, leyo, pc, resultado>>

(***************************************************************************)
(* Python string primitives                                                *)
(***************************************************************************)

DIGITS == <<"0", "1", "2", "3", "4", "5", "6", "7", "8", "9">>

IsDigit(c) == \E i \in 1..Len(DIGITS) : DIGITS[i] = c

DigitVal(c) == (CHOOSE i \in 1..Len(DIGITS) : DIGITS[i] = c) - 1

IsSpace(c) == c = " "

\* str.strip(): leading and trailing whitespace removed.
RECURSIVE LStrip(_)
LStrip(s) == IF s # <<>> /\ IsSpace(Head(s)) THEN LStrip(Tail(s)) ELSE s

RECURSIVE RStrip(_)
RStrip(s) ==
    IF s # <<>> /\ IsSpace(s[Len(s)]) THEN RStrip(SubSeq(s, 1, Len(s) - 1)) ELSE s

Strip(s) == RStrip(LStrip(s))

\* str.split(sep): the pieces between the occurrences of sep, in order.
RECURSIVE Split(_, _)
Split(s, sep) ==
    IF \A i \in 1..Len(s) : s[i] # sep
    THEN <<s>>
    ELSE LET k == CHOOSE i \in 1..Len(s) :
                      s[i] = sep /\ \A j \in 1..(i - 1) : s[j] # sep
         IN  <<SubSeq(s, 1, k - 1)>> \o Split(SubSeq(s, k + 1, Len(s)), sep)

AllDigits(s) == s # <<>> /\ \A i \in 1..Len(s) : IsDigit(s[i])

RECURSIVE DigitsVal(_)
DigitsVal(s) ==
    IF s = <<>> THEN 0
    ELSE 10 * DigitsVal(SubSeq(s, 1, Len(s) - 1)) + DigitVal(s[Len(s)])

\* int(str): surrounding whitespace is ignored, an optional sign, then
\* decimal digits; anything else raises ValueError (ok = FALSE).
IntStr(s) ==
    LET t    == Strip(s)
        sign == t # <<>> /\ Head(t) \in {"+", "-"}
        body == IF sign THEN Tail(t) ELSE t
    IN  IF AllDigits(body)
        THEN [ok |-> TRUE,
              v  |-> IF sign /\ Head(t) = "-" THEN 0 - DigitsVal(body)
                     ELSE DigitsVal(body)]
        ELSE [ok |-> FALSE, v |-> 0]

\* The characters of a str joined into one string value.
RECURSIVE Join(_)
Join(s) == IF s = <<>> THEN "" ELSE Head(s) \o Join(Tail(s))

(***************************************************************************)
(* datetime.date                                                           *)
(***************************************************************************)

IsLeap(y) == y % 4 = 0 /\ (y % 100 # 0 \/ y % 400 = 0)

DaysInMonth(y, m) ==
    IF m = 2 THEN (IF IsLeap(y) THEN 29 ELSE 28)
    ELSE IF m \in {4, 6, 9, 11} THEN 30 ELSE 31

\* date(y, m, d) raises ValueError outside these ranges.
ValidDate(y, m, d) ==
    /\ y \in 1..9999
    /\ m \in 1..12
    /\ d \in 1..DaysInMonth(y, m)

MkDate(y, m, d) == [y |-> y, m |-> m, d |-> d]

RECURSIVE DaysBeforeMonth(_, _)
DaysBeforeMonth(y, m) ==
    IF m = 1 THEN 0 ELSE DaysBeforeMonth(y, m - 1) + DaysInMonth(y, m - 1)

\* date.toordinal(): 0001-01-01 is day 1.
ToOrdinal(f) ==
    LET p == f.y - 1
    IN  p * 365 + (p \div 4) - (p \div 100) + (p \div 400)
        + DaysBeforeMonth(f.y, f.m) + f.d

\* date.weekday(): Monday is 0, Sunday is 6.
Weekday(f) == (ToOrdinal(f) + 6) % 7

Pad2(n) == DIGITS[((n \div 10) % 10) + 1] \o DIGITS[(n % 10) + 1]

Pad4(n) == Pad2((n \div 100) % 100) \o Pad2(n % 100)

\* fecha_obj.strftime("%Y-%m-%d")
FechaStr(f) == Pad4(f.y) \o "-" \o Pad2(f.m) \o "-" \o Pad2(f.d)

\* datetime.strptime(s, "%d/%m/%Y").date(): one or two digits, "/", one or
\* two digits, "/", four digits, nothing else; the fields must form a date.
Strptime(s) ==
    LET p == Split(s, "/")
    IN  IF /\ Len(p) = 3
           /\ AllDigits(p[1]) /\ Len(p[1]) \in 1..2
           /\ AllDigits(p[2]) /\ Len(p[2]) \in 1..2
           /\ AllDigits(p[3]) /\ Len(p[3]) = 4
           /\ ValidDate(DigitsVal(p[3]), DigitsVal(p[2]), DigitsVal(p[1]))
        THEN [ok |-> TRUE,
              f  |-> MkDate(DigitsVal(p[3]), DigitsVal(p[2]), DigitsVal(p[1]))]
        ELSE [ok |-> FALSE, f |-> MkDate(1, 1, 1)]

(***************************************************************************)
(* Shift resolver                                                          *)
(***************************************************************************)

HORARIOS_POR_TURNO ==
    ( "Lunes a Viernes" :>
        ( "T1A" :> "05:45 - 13:45" @@ "T1B" :> "07:00 - 15:00" @@
          "T2A" :> "13:45 - 21:45" @@ "T2B" :> "15:30 - 23:30" @@
          "R"   :> "Descanso"      @@ "HN"  :> "Horas Nocturnas" @@
          ""    :> "Dia Libre / No Definido" ) ) @@
    ( "Sabado" :>
        ( "T1A" :> "06:15 - 14:15" @@ "T1B" :> "07:00 - 15:00" @@
          "T2A" :> "15:30 - 23:30" @@ "T2B" :> "15:00 - 23:00" @@
          "R"   :> "Descanso"      @@ "HN"  :> "Horas Nocturnas" @@
          ""    :> "Dia Libre / No Definido" ) ) @@
    ( "Domingos y Festivos" :>
        ( "T1A" :> "07:30 - 15:30" @@ "HN"  :> "09:00 - 17:00" @@
          "T2A" :> "15:30 - 23:30" @@ "R"   :> "Descanso" @@
          "T1B" :> "No aplica"     @@ "T2B" :> "No aplica" @@
          ""    :> "Dia Libre / No Definido" ) )

NOMBRES_PERSONAS ==
    <<"J. VIDAL", "M. PAEZ", "L.DOMINGUEZ", "J.VASQUEZ", "J.CANALES",
      "L. FERNANDEZ", "N. SANTANDER", "P. PENA", "L. MOLINA", "N. CARRENO">>

Personas == {NOMBRES_PERSONAS[i] : i \in 1..Len(NOMBRES_PERSONAS)}

\* A variant with the indexes of Saturday and Sunday exchanged.
TipoDiaCambiado(fecha) ==
    IF Weekday(fecha) = 6 THEN "Sabado"
    ELSE IF Weekday(fecha) = 5 THEN "Domingos y Festivos"
    ELSE "Lunes a Viernes"

get_tipo_dia(fecha) ==
    IF Weekday(fecha) = 5 THEN "Sabado"
    ELSE IF Weekday(fecha) = 6 THEN "Domingos y Festivos"
    ELSE "Lunes a Viernes"

\* dict.get(key, default)
DictGet(d, k, default) == IF k \in DOMAIN d THEN d[k] ELSE default

\* HORARIOS_POR_TURNO.get(tipo_dia, {}).get(tipo_turno, "Horario no disponible")
Horario(tipo_dia, tipo_turno) ==
    DictGet(DictGet(HORARIOS_POR_TURNO, tipo_dia, <<>>), tipo_turno,
            "Horario no disponible")

(***************************************************************************)
(* Cells                                                                   *)
(***************************************************************************)

NaN == [t |-> "nan"]

Num(n) == [t |-> "num", n |-> n]

Str(s) == [t |-> "str", s |-> s]

Ts(y, m, d, h) == [t |-> "ts", y |-> y, m |-> m, d |-> d, h |-> h]

\* pd.notna(cell)
NotNa(c) == c.t # "nan"

\* int(cell): a number converts, a str is parsed, an empty cell raises
\* ValueError and a Timestamp raises TypeError (ok = FALSE).
IntCell(c) ==
    IF c.t = "num" THEN [ok |-> TRUE, v |-> c.n]
    ELSE IF c.t = "str" THEN IntStr(c.s)
    ELSE [ok |-> FALSE, v |-> 0]

RECURSIVE NumChars(_)
NumChars(n) ==
    IF n < 10 THEN <<DIGITS[n + 1]>>
    ELSE NumChars(n \div 10) \o <<DIGITS[(n % 10) + 1]>>

\* str(cell) of a str or a non-negative integer cell.
StrCell(c) == IF c.t = "str" THEN c.s ELSE NumChars(c.n)

\* isinstance(cell, (pd.Timestamp, datetime, date))
IsFecha(c) == c.t = "ts"

\* isinstance(cell, str)
IsStr(c) == c.t = "str"

\* isinstance(cell, (int, float))
IsNumero(c) == c.t = "num"

\* row.get(col, default)
RowGet(row, col, default) == IF col \in DOMAIN row THEN row[col] ELSE default

(***************************************************************************)
(* cargar_turnos_desde_excel_full                                          *)
(***************************************************************************)

Falla == [ok |-> FALSE, f |-> MkDate(1, 1, 1)]

Exito(f) == [ok |-> TRUE, f |-> f]

\* The inner try: fecha_bruta.split('/'), int() of the first two pieces,
\* date(anio, mes, dia). ValueError and IndexError give ok = FALSE.
ParseDiaMes(s, anio) ==
    LET dia_mes_partes == Split(s, "/")
        dia == IntStr(Strip(dia_mes_partes[1]))
    IN  IF ~dia.ok THEN Falla
        ELSE IF Len(dia_mes_partes) < 2 THEN Falla
        ELSE LET mes == IntStr(Strip(dia_mes_partes[2]))
             IN  IF mes.ok /\ ValidDate(anio, mes.v, dia.v)
                 THEN Exito(MkDate(anio, mes.v, dia.v))
                 ELSE Falla

\* The branch under the second except: only a numeric fecha_bruta is taken
\* as the day, with the month of MES_NUMERO or of the system clock.
ParseDiaNumerico(df, row, fecha_bruta, anio, now) ==
    IF IsNumero(fecha_bruta)
    THEN LET dia == fecha_bruta.n
             mes == IF "MES_NUMERO" \in df.columns /\ NotNa(row["MES_NUMERO"])
                    THEN IntCell(row["MES_NUMERO"])
                    ELSE [ok |-> TRUE, v |-> now.month]
         IN  IF mes.ok /\ ValidDate(anio, mes.v, dia)
             THEN Exito(MkDate(anio, mes.v, dia))
             ELSE Falla
    ELSE Falla

\* The str branch of the date parsing: day/month first, then the full
\* "%d/%m/%Y" form, then the numeric-day fallback.
ParseFechaStr(df, row, fecha_bruta, anio, now) ==
    LET dm == ParseDiaMes(fecha_bruta.s, anio)
    IN  IF dm.ok THEN dm
        ELSE LET full == Strptime(fecha_bruta.s)
             IN  IF full.ok THEN full
                 ELSE ParseDiaNumerico(df, row, fecha_bruta, anio, now)

\* The date of one row: ok = FALSE when the row is skipped, by a continue or
\* by the except of the row's try.
FechaDeFila(df, row, now) ==
    LET fecha_bruta == row["FECHA"]
        anio == IF "ANIO" \in DOMAIN row THEN IntCell(row["ANIO"])
                ELSE [ok |-> FALSE, v |-> 0]
    IN  IF ~anio.ok THEN Falla
        ELSE IF IsFecha(fecha_bruta)
             THEN Exito(MkDate(fecha_bruta.y, fecha_bruta.m, fecha_bruta.d))
        ELSE IF IsStr(fecha_bruta)
             THEN ParseFechaStr(df, row, fecha_bruta, anio.v, now)
        ELSE Falla

\* One person's entry of a row.
TurnoDePersona(row, fecha_obj, persona) ==
    LET tipo_turno_raw == RowGet(row, persona, Str(<<>>))
        tipo_turno == IF NotNa(tipo_turno_raw)
                      THEN Join(Strip(StrCell(tipo_turno_raw)))
                      ELSE ""
        tipo_dia == get_tipo_dia(fecha_obj)
    IN  [tipo_turno |-> tipo_turno, horario |-> Horario(tipo_dia, tipo_turno)]

TurnosDelDia(row, fecha_obj) ==
    [persona \in Personas |-> TurnoDePersona(row, fecha_obj, persona)]

\* d[k] = v
DictSet(d, k, v) == [x \in (DOMAIN d) \cup {k} |-> IF x = k THEN v ELSE d[x]]

EmptyDict == [x \in {} |-> x]

\* A variant whose loop ends at the first row it cannot resolve (break in
\* place of continue).
RECURSIVE CargarFilasBreak(_, _, _)
CargarFilasBreak(df, n, now) ==
    IF n = 0 THEN EmptyDict
    ELSE LET previo == CargarFilasBreak(df, n - 1, now)
             row    == df.rows[n]
             fecha  == FechaDeFila(df, row, now)
         IN  IF \A i \in 1..n : FechaDeFila(df, df.rows[i], now).ok
             THEN DictSet(previo, FechaStr(fecha.f), TurnosDelDia(row, fecha.f))
             ELSE previo

\* The for loop over df.iterrows(), rows 1..n, in order.
RECURSIVE CargarFilas(_, _, _)
CargarFilas(df, n, now) ==
    IF n = 0 THEN EmptyDict
    ELSE LET previo == CargarFilas(df, n - 1, now)
             row    == df.rows[n]
             fecha  == FechaDeFila(df, row, now)
         IN  IF fecha.ok
             THEN DictSet(previo, FechaStr(fecha.f), TurnosDelDia(row, fecha.f))
             ELSE previo

\* df['AÑO'].isnull().all()
AnioVacio(df) == \A i \in 1..Len(df.rows) : ~NotNa(df.rows[i]["ANIO"])

\* The year inferred when AÑO is missing or empty: the year of the first
\* non-empty FECHA cell if that cell is a date object, else the system year.
AnioDefecto(df, now) ==
    LET llenas == {i \in 1..Len(df.rows) : NotNa(df.rows[i]["FECHA"])}
    IN  IF llenas = {} THEN now.year
        ELSE LET primer_fecha ==
                     df.rows[CHOOSE i \in llenas : \A j \in llenas : i <= j]["FECHA"]
             IN  IF IsFecha(primer_fecha) THEN primer_fecha.y ELSE now.year

\* df['AÑO'] = df['AÑO'].fillna(anio_defecto)
FillnaAnio(df, anio_defecto) ==
    [df EXCEPT !.rows =
        [i \in 1..Len(df.rows) |->
            IF NotNa(df.rows[i]["ANIO"]) THEN df.rows[i]
            ELSE [df.rows[i] EXCEPT !["ANIO"] = Num(anio_defecto)]]]

Raise(exc) == [exc |-> exc, data |-> EmptyDict]

Return(data) == [exc |-> "none", data |-> data]

\* The whole load: exc names the exception that leaves the function
\* ("none" on return), data is the returned dict.
cargar_turnos_desde_excel_full(arch, now) ==
    IF arch.kind = "missing" THEN Raise("HTTP404")
    ELSE IF arch.kind = "corrupt" THEN Raise("HTTP500")
    ELSE LET df == arch.df
         IN  IF "FECHA" \notin df.columns THEN Raise("HTTP500")
             ELSE IF "ANIO" \notin df.columns THEN Raise("KeyError")
             ELSE IF AnioVacio(df)
                  THEN LET lleno == FillnaAnio(df, AnioDefecto(df, now))
                       IN  Return(CargarFilas(lleno, Len(lleno.rows), now))
             ELSE Return(CargarFilas(df, Len(df.rows), now))

(***************************************************************************)
(* Inputs: the backing files and the clock                                 *)
(***************************************************************************)

\* The largest number of rows of a table.
MaxFilas == 2

Relojes == {[year |-> 2026, month |-> 11], [year |-> 2024, month |-> 3]}

CeldasFecha ==
    { Ts(2024, 1, 6, 10),                                       \* a Saturday
      Ts(2023, 1, 8, 0),                                        \* a Sunday
      Str(<<"1", "8", "/", "1", "2", ",", " ", "T", "h", "u">>),
      Str(<<"0", "5", "/", "0", "1", "/", "2", "0", "2", "4">>),
      Str(<<"2", "9", "/", "0", "2", "/", "2", "0", "2", "4">>),
      Str(<<"8", "/", "1">>),
      Str(<<"T", "B", "D">>),
      Num(15),
      NaN }

CeldasAnio == {Num(2023), Num(2024), NaN}

\* The shift cells: person j of row i holds CeldasTurno[((i + j) % 10) + 1],
\* so every row holds every one of these cells.
CeldasTurno ==
    << Str(<<"T", "1", "A">>), Str(<<"T", "1", "B">>), Str(<<"T", "2", "A">>),
       Str(<<"T", "2", "B">>), Str(<<"R">>), Str(<<"H", "N">>), Str(<<>>), NaN,
       Str(<<"Z", "Z", "Z">>), Str(<<" ", "T", "1", "A", " ">>) >>

IndiceDePersona(p) == CHOOSE j \in 1..Len(NOMBRES_PERSONAS) : NOMBRES_PERSONAS[j] = p

\* The column layouts of the tables: the full sheet, a sheet whose
\* MES_NUMERO cells are empty, a sheet without MES_NUMERO and without the last
\* two persons' columns, a sheet without AÑO, a sheet without FECHA.
Layouts ==
    { [cols |-> {"FECHA", "ANIO", "MES_NUMERO"} \cup Personas, mes |-> Num(3)],
      [cols |-> {"FECHA", "ANIO", "MES_NUMERO"} \cup Personas, mes |-> NaN],
      [cols |-> {"FECHA", "ANIO"} \cup {NOMBRES_PERSONAS[j] : j \in 1..8},
       mes  |-> NaN],
      [cols |-> {"FECHA", "MES_NUMERO"} \cup Personas, mes |-> Num(3)],
      [cols |-> {"ANIO"} \cup Personas, mes |-> NaN] }

LayoutsServidor ==
    { L \in Layouts : L.mes = Num(3) \/ "FECHA" \notin L.cols }

Fila(L, i, par) ==
    [c \in L.cols |->
        IF c = "FECHA" THEN par[1]
        ELSE IF c = "ANIO" THEN par[2]
        ELSE IF c = "MES_NUMERO" THEN L.mes
        ELSE CeldasTurno[((i + IndiceDePersona(c)) % Len(CeldasTurno)) + 1]]

\* The (FECHA, AÑO) cells a layout's rows are drawn from: a column the
\* layout lacks contributes nothing.
Pares(L, fechas, anios) ==
    (IF "FECHA" \in L.cols THEN fechas ELSE {NaN})
        \X (IF "ANIO" \in L.cols THEN anios ELSE {NaN})

Excel(L, pares) ==
    [kind |-> "excel",
     df   |-> [columns |-> L.cols,
               rows    |-> [i \in 1..Len(pares) |-> Fila(L, i, pares[i])]]]

Missing == [kind |-> "missing"]

Corrupt == [kind |-> "corrupt"]

\* a is a missing file, an unreadable file, or a sheet of one of the
\* layouts with at most MaxFilas rows of the given cells.
EsArchivo(a, layouts, fechas, anios) ==
    \/ a = Missing
    \/ a = Corrupt
    \/ \E L \in layouts : \E n \in 0..MaxFilas :
         \E pares \in [1..n -> Pares(L, fechas, anios)] : a = Excel(L, pares)

\* The files of the loader's specification.
EsArchivoCarga(a) == EsArchivo(a, Layouts, CeldasFecha, CeldasAnio)

\* The files of the server's specification: fewer cells, since every state
\* of the cache is paired with every file.
EsArchivoServidor(a) ==
    EsArchivo(a, LayoutsServidor,
              { Ts(2024, 1, 6, 10), Str(<<"8", "/", "1">>),
                Str(<<"T", "B", "D">>) },
              {Num(2024)})

(***************************************************************************)
(* The routes                                                              *)
(***************************************************************************)

\* JSON values of a request body.
JStr(v) == [t |-> "str", v |-> v]

JNum(v) == [t |-> "num", v |-> v]

JNull == [t |-> "null"]

\* A variant that tests the token with "is not None".
NoEsNone(x) == x.t # "null"

\* Python truth value of a JSON value (None stands for an absent key).
Truthy(x) ==
    IF x.t = "str" THEN x.v # ""
    ELSE IF x.t = "num" THEN x.v # 0
    ELSE FALSE

Peticiones ==
    { EmptyDict,
      [k \in {"device_token"} |-> JStr("abc")],
      [k \in {"device_token"} |-> JStr("")],
      [k \in {"device_token"} |-> JNum(0)],
      [k \in {"device_token"} |-> JNum(7)],
      [k \in {"device_token"} |-> JNull],
      [k \in {"platform"} |-> JStr("ios")] }

SinPeticion == EmptyDict

Respuesta(ruta, peticion, status, body) ==
    [ruta |-> ruta, peticion |-> peticion, status |-> status, body |-> body]

\* raise HTTPException(status_code, detail)
HttpError(ruta, peticion, status, detail) ==
    Respuesta(ruta, peticion, status, [detail |-> detail])

\* GET /
read_root ==
    /\ pc = "sirviendo"
    /\ respuesta' = Respuesta("/", SinPeticion, 200,
                              [message |-> "Bienvenido a la API de Turnos!"])
    /\ leyo' = FALSE
    /\ UNCHANGED <<archivo, ahora, turnos_completos, pc, resultado>>

\* A variant that answers every exception with 500.
StatusSiempre500(exc) == 500

\* The status of an exception that leaves a handler: an HTTPException
\* carries its own, any other exception is the framework's 500.
StatusDeExcepcion(exc) == IF exc = "HTTP404" THEN 404 ELSE 500

\* The reload of get_all_turnos, taken when the cache is empty.
Recargar ==
    LET r == cargar_turnos_desde_excel_full(archivo, ahora)
    IN  /\ leyo' = TRUE
        /\ IF r.exc # "none"
           THEN /\ turnos_completos' = turnos_completos
                /\ respuesta' = HttpError("/turnos", SinPeticion,
                                          StatusDeExcepcion(r.exc), r.exc)
           ELSE /\ turnos_completos' = r.data
                /\ respuesta' =
                      IF r.data = EmptyDict
                      THEN HttpError("/turnos", SinPeticion, 404,
                                     "Turnos no cargados o archivo no encontrado")
                      ELSE Respuesta("/turnos", SinPeticion, 200, r.data)

\* A variant that reloads on every request.
RecargarSiempre ==
    /\ pc = "sirviendo"
    /\ Recargar
    /\ UNCHANGED <<archivo, ahora, pc, resultado>>

\* GET /turnos
get_all_turnos ==
    /\ pc = "sirviendo"
    /\ IF turnos_completos = EmptyDict
       THEN Recargar
       ELSE /\ leyo' = FALSE
            /\ turnos_completos' = turnos_completos
            /\ respuesta' = Respuesta("/turnos", SinPeticion, 200, turnos_completos)
    /\ UNCHANGED <<archivo, ahora, pc, resultado>>

\* request.get("device_token")
DeviceToken(request) == DictGet(request, "device_token", JNull)

\* The answer of register_device to a request body.
RegistrarDispositivo(request) ==
    IF Truthy(DeviceToken(request))
    THEN Respuesta("/register_device", request, 200,
                   [message |-> "Token de dispositivo registrado exitosamente"])
    ELSE HttpError("/register_device", request, 400,
                   "Falta el token del dispositivo")

\* POST /register_device
register_device ==
    /\ pc = "sirviendo"
    /\ \E request \in Peticiones : respuesta' = RegistrarDispositivo(request)
    /\ leyo' = FALSE
    /\ UNCHANGED <<archivo, ahora, turnos_completos, pc, resultado>>

SinRespuesta == Respuesta("", SinPeticion, 0, EmptyDict)

\* The environment replaces, removes or damages the backing file. respuesta
\* and leyo describe the step just taken: no request, no read.
CambiarArchivo ==
    /\ pc = "sirviendo"
    /\ EsArchivoServidor(archivo')
    /\ archivo' # archivo
    /\ respuesta' = SinRespuesta
    /\ leyo' = FALSE
    /\ UNCHANGED <<ahora, turnos_completos, pc, resultado>>

Pendiente == [exc |-> "pendiente", data |-> EmptyDict]

\* The process exists once the module-level load has returned: an exception
\* there ends the import, and no request is ever served.
Init ==
    /\ EsArchivoServidor(archivo)
    /\ ahora \in Relojes
    /\ cargar_turnos_desde_excel_full(archivo, ahora).exc = "none"
    /\ turnos_completos = cargar_turnos_desde_excel_full(archivo, ahora).data
    /\ respuesta = SinRespuesta
    /\ leyo = TRUE
    /\ pc = "sirviendo"
    /\ resultado = Pendiente

Next == read_root \/ get_all_turnos \/ register_device \/ CambiarArchivo

Spec == Init /\ [][Next]_vars

(***************************************************************************)
(* The loader alone: one call of cargar_turnos_desde_excel_full on every   *)
(* file and clock of the bounded input sets.                               *)
(***************************************************************************)

CargarArchivo ==
    /\ pc = "inicio"
    /\ resultado' = cargar_turnos_desde_excel_full(archivo, ahora)
    /\ pc' = "cargado"
    /\ UNCHANGED <<archivo, ahora, turnos_completos, respuesta, leyo>>

InitCarga ==
    /\ EsArchivoCarga(archivo)
    /\ ahora \in Relojes
    /\ turnos_completos = EmptyDict
    /\ respuesta = SinRespuesta
    /\ leyo = FALSE
    /\ pc = "inicio"
    /\ resultado = Pendiente

NextCarga == CargarArchivo

SpecCarga == InitCarga /\ [][NextCarga]_vars

(***************************************************************************)
(* The resolver: the load of a one-row sheet for every calendar day of the *)
(* years below, the row holding every shift cell of CeldasTurno.           *)
(***************************************************************************)

AniosDeTurnos == {1900, 2000, 2023, 2024, 2026}

LayoutCompleto ==
    [cols |-> {"FECHA", "ANIO", "MES_NUMERO"} \cup Personas, mes |-> Num(3)]

InitTurnos ==
    /\ \E y \in AniosDeTurnos : \E m \in 1..12 : \E d \in 1..DaysInMonth(y, m) :
          archivo = Excel(LayoutCompleto, << <<Ts(y, m, d, 10), Num(y)>> >>)
    /\ ahora \in Relojes
    /\ turnos_completos = EmptyDict
    /\ respuesta = SinRespuesta
    /\ leyo = FALSE
    /\ pc = "inicio"
    /\ resultado = Pendiente

SpecTurnos == InitTurnos /\ [][NextCarga]_vars

(***************************************************************************)
(* Properties of the routes (specification Spec)                           *)
(***************************************************************************)

Meses == {"01", "02", "03", "04", "05", "06", "07", "08", "09", "10", "11", "12"}

Dias ==
    Meses \cup {"13", "14", "15", "16", "17", "18", "19", "20", "21", "22",
                "23", "24", "25", "26", "27", "28", "29", "30", "31"}

\* The 'YYYY-MM-DD' strings of the years the inputs can produce.
ClavesFecha ==
    { y \o "-" \o m \o "-" \o d : y \in {"2023", "2024", "2026"}, m \in Meses, d \in Dias }

EsTurnos == respuesta.ruta = "/turnos"

\* C1: GET /turnos answers 404 when the backing file is missing or the
\* reload yields an empty schedule, 500 on any other failure of the load
\* (unreadable file, missing FECHA column, any other exception), and
\* otherwise 200 with the whole resolved schedule, keyed by 'YYYY-MM-DD'
\* strings; a request served from a non-empty cache answers 200 with it.
C1_EstadoDeTurnos ==
    EsTurnos =>
        IF leyo
        THEN LET r == cargar_turnos_desde_excel_full(archivo, ahora)
             IN  /\ (archivo = Missing \/ (r.exc = "none" /\ r.data = EmptyDict))
                        => respuesta.status = 404
                 /\ (archivo # Missing /\ r.exc # "none") => respuesta.status = 500
                 /\ (archivo = Corrupt) => respuesta.status = 500
                 /\ (archivo.kind = "excel" /\ "FECHA" \notin archivo.df.columns)
                        => respuesta.status = 500
                 /\ (r.exc = "none" /\ r.data # EmptyDict)
                        => /\ respuesta.status = 200
                           /\ respuesta.body = r.data
                           /\ DOMAIN respuesta.body \subseteq ClavesFecha
        ELSE /\ respuesta.status = 200
             /\ respuesta.body = turnos_completos
             /\ turnos_completos # EmptyDict
             /\ DOMAIN respuesta.body \subseteq ClavesFecha

\* C1 witness: the cache was empty, the file has gone, and the request
\* that tried to reload answered 404.
C1_Testigo ==
    EsTurnos /\ leyo /\ archivo = Missing /\ respuesta.status = 404

EsRegistro == respuesta.ruta = "/register_device"

TieneToken == "device_token" \in DOMAIN respuesta.peticion

\* C7 as stated: POST /register_device answers 200 when the payload
\* contains a device_token string and 400 when it contains no device_token.
C7_Original ==
    EsRegistro =>
        /\ (TieneToken /\ respuesta.peticion["device_token"].t = "str")
              => respuesta.status = 200
        /\ ~TieneToken => respuesta.status = 400

\* C7 amended: POST /register_device answers 200 when the payload contains a
\* non-empty device_token string, and 400 when the payload contains no
\* device_token or an empty one.
C7_TokenNoVacio ==
    EsRegistro =>
        /\ (/\ TieneToken
            /\ respuesta.peticion["device_token"].t = "str"
            /\ respuesta.peticion["device_token"].v # "")
              => respuesta.status = 200
        /\ (\/ ~TieneToken
            \/ respuesta.peticion["device_token"] = JStr(""))
              => respuesta.status = 400

\* C7 witness: an empty device_token string was refused with 400.
C7_Testigo ==
    /\ EsRegistro
    /\ TieneToken
    /\ respuesta.peticion["device_token"] = JStr("")
    /\ respuesta.status = 400

\* C10: a GET /turnos reads the file exactly when the cache is empty at
\* that moment; a non-empty cache never changes and is what every later
\* GET /turnos returns, whatever the file has become; a request whose
\* reload fails or yields nothing leaves the cache empty.
C10_RecargaSoloVacio ==
    [][ /\ (turnos_completos # EmptyDict => turnos_completos' = turnos_completos)
        /\ (respuesta'.ruta = "/turnos" =>
               /\ leyo' <=> (turnos_completos = EmptyDict)
               /\ (turnos_completos # EmptyDict =>
                      /\ respuesta'.status = 200
                      /\ respuesta'.body = turnos_completos)
               /\ (respuesta'.status # 200 => turnos_completos' = EmptyDict)
               /\ (respuesta'.status = 200 =>
                      /\ respuesta'.body = turnos_completos'
                      /\ turnos_completos' # EmptyDict))
        /\ (respuesta'.ruta # "/turnos" => ~leyo') ]_vars

\* C10 witness: the file has gone and the request was served from the
\* cache without reading it.
C10_Testigo ==
    /\ EsTurnos
    /\ ~leyo
    /\ archivo = Missing
    /\ respuesta.status = 200
    /\ respuesta.body = turnos_completos

(***************************************************************************)
(* Properties of the resolver (specification SpecTurnos)                   *)
(***************************************************************************)

Cargado == pc = "cargado" /\ archivo.kind = "excel"

Datos == resultado.data

Filas == archivo.df.rows

Sentinela == "Horario no disponible"

\* The category of a date as the claim defines it.
Categoria(f) ==
    CASE Weekday(f) = 5 -> "Sabado"
      [] Weekday(f) = 6 -> "Domingos y Festivos"
      [] OTHER          -> "Lunes a Viernes"

FechaDeTs(c) == MkDate(c.y, c.m, c.d)

HorarioDe(clave, codigo) ==
    {Datos[clave][p].horario : p \in {q \in Personas : Datos[clave][q].tipo_turno = codigo}}

\* C2: resolve is total: every person of every resolved date has an entry
\* whose display range is the table entry of (category(date), code), or the
\* sentinel when the table has no such pair; (Saturday, T1A) gives
\* 06:15 - 14:15, (Sunday, T1A) gives 07:30 - 15:30, (Monday, ZZZ) gives the
\* sentinel and the empty code on a weekday gives the day-off string.
C2_ResolverTotal ==
    Cargado =>
        /\ resultado.exc = "none"
        /\ \A i \in 1..Len(Filas) :
              LET f == FechaDeTs(Filas[i]["FECHA"])
                  k == FechaStr(f)
                  tabla == HORARIOS_POR_TURNO[Categoria(f)]
              IN  /\ k \in DOMAIN Datos
                  /\ DOMAIN Datos[k] = Personas
                  /\ \A p \in Personas :
                        LET e == Datos[k][p]
                        IN  e.horario = IF e.tipo_turno \in DOMAIN tabla
                                        THEN tabla[e.tipo_turno]
                                        ELSE Sentinela
                  /\ {Datos[k][p].tipo_turno : p \in Personas}
                        = {"T1A", "T1B", "T2A", "T2B", "R", "HN", "", "ZZZ"}
        /\ "2024-01-06" \in DOMAIN Datos
              => HorarioDe("2024-01-06", "T1A") = {"06:15 - 14:15"}
        /\ "2024-01-07" \in DOMAIN Datos
              => HorarioDe("2024-01-07", "T1A") = {"07:30 - 15:30"}
        /\ "2024-01-08" \in DOMAIN Datos
              => /\ HorarioDe("2024-01-08", "ZZZ") = {Sentinela}
                 /\ HorarioDe("2024-01-08", "") = {"Dia Libre / No Definido"}
        /\ "2000-02-29" \in DOMAIN Datos
              => HorarioDe("2000-02-29", "T2A") = {"13:45 - 21:45"}
        /\ "1900-03-04" \in DOMAIN Datos
              => HorarioDe("1900-03-04", "HN") = {"09:00 - 17:00"}

\* C2 witness: the Saturday 2024-01-06 was resolved and a person with code
\* T1A got the Saturday range.
C2_Testigo ==
    /\ Cargado
    /\ "2024-01-06" \in DOMAIN Datos
    /\ \E p \in Personas :
          Datos["2024-01-06"][p] = [tipo_turno |-> "T1A", horario |-> "06:15 - 14:15"]

(***************************************************************************)
(* Properties of the loader (specification SpecCarga)                      *)
(***************************************************************************)

CargadoSinError == Cargado /\ resultado.exc = "none"

Contiene(str, c) == \E j \in 1..Len(str) : str[j] = c

\* C3 as stated: every row whose date cell holds a native date or datetime,
\* whatever its other cells hold, has an entry under that value's calendar
\* date.
C3_Original ==
    CargadoSinError =>
        \A i \in 1..Len(Filas) :
            IsFecha(Filas[i]["FECHA"])
                => FechaStr(FechaDeTs(Filas[i]["FECHA"])) \in DOMAIN Datos

\* The date the claim C4 gives a "day/month, text" cell: the part before
\* the comma, split on "/" as day and month, with the row's year.
FechaConComa(str, anio) ==
    LET partes == Split(Split(str, ",")[1], "/")
    IN  MkDate(anio, IntStr(partes[2]).v, IntStr(partes[1]).v)

\* C4 as stated: every row whose date cell is a string with a comma and a
\* slash is resolved to date(row year, month, day) of the part before the
\* comma; "18/12, Thu" with year 2024 appears under 2024-12-18.
C4_Original ==
    CargadoSinError =>
        \A i \in 1..Len(Filas) :
            LET c == Filas[i]["FECHA"]
                a == Filas[i]["ANIO"]
            IN  (/\ IsStr(c) /\ Contiene(c.s, ",") /\ Contiene(c.s, "/")
                 /\ Len(Split(Split(c.s, ",")[1], "/")) >= 2
                 /\ IsNumero(a))
                    => FechaStr(FechaConComa(c.s, a.n)) \in DOMAIN Datos

\* C5 as stated: every row whose date cell is a day/month/year string is
\* resolved to the date written in the string, whatever the row's year cell
\* holds; "05/01/2024" appears under 2024-01-05.
C5_Original ==
    CargadoSinError =>
        \A i \in 1..Len(Filas) :
            LET c == Filas[i]["FECHA"]
            IN  (IsStr(c) /\ Strptime(c.s).ok)
                    => FechaStr(Strptime(c.s).f) \in DOMAIN Datos

\* A date cell no year can make readable: not a date object, and if a str,
\* neither a day/month of a leap year nor a "%d/%m/%Y" date.
FechaIlegible(c) ==
    /\ ~IsFecha(c)
    /\ IsStr(c) => (~ParseDiaMes(c.s, 2024).ok /\ ~Strptime(c.s).ok)

FilaLegible(row) == ~FechaIlegible(RowGet(row, "FECHA", NaN))

Legibles == {i \in 1..Len(Filas) : FilaLegible(Filas[i])}

\* The file with the rows of unreadable date removed.
SinIlegibles ==
    [archivo EXCEPT !.df.rows = SelectSeq(archivo.df.rows, FilaLegible)]

CargaSinIlegibles == cargar_turnos_desde_excel_full(SinIlegibles, ahora)

HayIlegible == \E i \in 1..Len(Filas) : ~FilaLegible(Filas[i])

\* C6 as stated: the load of a sheet (with its date and year columns) does
\* not raise even when some rows have an unparsable date, no such row
\* contributes an entry, and the result equals the result of loading the
\* sheet with those rows removed.
C6_Original ==
    (Cargado /\ {"FECHA", "ANIO"} \subseteq archivo.df.columns) =>
        /\ resultado.exc = "none"
        /\ Cardinality(DOMAIN Datos) <= Cardinality(Legibles)
        /\ Datos = CargaSinIlegibles.data

\* C6 amended: rows with an unparsable date never make a load raise (the
\* load raises exactly as the load of the sheet without those rows does), no
\* such row contributes an entry, and the result equals the result of
\* loading the sheet with those rows removed whenever the year column is not
\* entirely empty once they are removed.
C6_FilasIlegibles ==
    Cargado =>
        /\ resultado.exc = CargaSinIlegibles.exc
        /\ Cardinality(DOMAIN Datos) <= Cardinality(Legibles)
        /\ (resultado.exc = "none" /\ ~AnioVacio(SinIlegibles.df))
              => Datos = CargaSinIlegibles.data

\* C6 witness: a sheet with an unreadable date row and a non-empty year
\* column after the removal was loaded into a non-empty result.
C6_Testigo ==
    /\ CargadoSinError
    /\ HayIlegible
    /\ ~AnioVacio(SinIlegibles.df)
    /\ Datos # EmptyDict
    /\ Datos = CargaSinIlegibles.data

\* The default year of the claim C8: the year of the first date of the date
\* column when that cell is a date, else the system year.
AnioInferido ==
    LET llenas == {i \in 1..Len(Filas) : NotNa(Filas[i]["FECHA"])}
    IN  IF llenas = {} THEN ahora.year
        ELSE LET c == Filas[CHOOSE i \in llenas : \A j \in llenas : i <= j]["FECHA"]
             IN  IF IsFecha(c) THEN c.y ELSE ahora.year

EsDiaMes(c) == IsStr(c) /\ Len(Split(c.s, "/")) = 2 /\ ParseDiaMes(c.s, 2024).ok

\* C8 as stated: with a date column and a year column absent or entirely
\* empty the load does not fail, and every day/month row is resolved with
\* the inferred default year.
C8_Original ==
    (/\ Cargado
     /\ "FECHA" \in archivo.df.columns
     /\ \A i \in 1..Len(Filas) : ~NotNa(RowGet(Filas[i], "ANIO", NaN)))
        => /\ resultado.exc = "none"
           /\ \A i \in 1..Len(Filas) :
                 EsDiaMes(Filas[i]["FECHA"])
                    => FechaStr(ParseDiaMes(Filas[i]["FECHA"].s, AnioInferido).f)
                          \in DOMAIN Datos

\* The month the claim C9 gives a numeric date cell.
MesDeFila(row) ==
    IF "MES_NUMERO" \in DOMAIN row /\ NotNa(row["MES_NUMERO"])
    THEN row["MES_NUMERO"].n
    ELSE ahora.month

\* C9 as stated: every row whose date cell is a number is resolved to
\* date(row year, month, day), the month being the row's MES_NUMERO when
\* present and the system month otherwise.
C9_Original ==
    CargadoSinError =>
        \A i \in 1..Len(Filas) :
            (IsNumero(Filas[i]["FECHA"]) /\ IsNumero(Filas[i]["ANIO"]))
                => FechaStr(MkDate(Filas[i]["ANIO"].n, MesDeFila(Filas[i]),
                                   Filas[i]["FECHA"].n)) \in DOMAIN Datos

====
